---- MODULE Spec2Model ----
\* Video ingestion and playback resolution of the AI Toolbox catalog:
\* the validators (shared/schema.ts, server/routes.ts), the storage layer
\* over the Record Store and the Blob Store (server/storage.ts), the HTTP
\* handlers (server/routes.ts), the player's source resolution
\* (client/src/components/video-player.tsx) and the admin form with its
\* chunked file encoder (client/src/components/admin/video-form.tsx).
EXTENDS Integers, Sequences, FiniteSets, TLC

\* ------------------------------------------------------------------ bounds

\* ids the serial primary key hands out before the model stops creating
MaxId == 1
\* distinct values Date.now() can return
MaxClock == 2
\* whole chunks of the largest file the admin form is given
MaxFileChunks == 2
\* records the storage object is asked to create when it is called directly
MaxRecords == 2
\* longest duration, in seconds, of a video the Home page is given
MaxDuration == 902

\* ------------------------------------------------------------------ values

\* A text value of the url and video_data columns / fields.  JavaScript's
\* null and undefined, a literal string, the storage path
\* `uploads/${Date.now()}-${filename}` and the public URL of a path are
\* kept apart by kind.
Null == [kind |-> "null", t |-> 0, name |-> ""]
Undefined == [kind |-> "undefined", t |-> 0, name |-> ""]
Str(s) == [kind |-> "str", t |-> 0, name |-> s]
Raw(d) == [kind |-> "base64", t |-> 0, name |-> d]

\* plain-string fields (title, platform, videoDate) use these markers
NULLS == "<null>"
UNDEF == "<undefined>"

\* JavaScript truthiness of a text value
Truthy(x) == x.kind \notin {"null", "undefined"} /\ x # Str("")

\* videoData of a request body: null, missing, or { data, filename }
VdNull == [kind |-> "null", data |-> <<>>, filename |-> ""]
VdUndefined == [kind |-> "undefined", data |-> <<>>, filename |-> ""]
VdObject(d, f) == [kind |-> "object", data |-> d, filename |-> f]

\* A base64 string is kept as the sequence of its parts: the data-URL
\* prefix "data:<type>;base64," and, for a run of bytes from..to-1 of a file,
\* the padded base64 text of exactly these bytes.
Prefix == [kind |-> "prefix", from |-> 0, to |-> 0]
Base64(from, to) == [kind |-> "base64", from |-> from, to |-> to]

\* the bytes from..to-1 of a file, and what the characters of a data-URL
\* prefix decode to
Bytes(from, to) == [kind |-> "bytes", from |-> from, to |-> to]
Junk == [kind |-> "junk", from |-> 0, to |-> 0]

EmptyUrl == Str("")
YoutubeUrl == Str("https://youtube.com/watch?v=abc")
PageUrl == Str("https://example.com/page.html")
JpgThumbnail == "http://x/a.jpg"
GifThumbnail == "http://x/a.gif"
\* the base64 text of a three-byte file
Payload == <<Base64(0, 3)>>
\* the base64 texts of two files of different content
Payloads == {Payload, <<Base64(3, 6)>>}
Filenames == {"a.mp4"}
Platforms == {"youtube", "mp4", "upload"}
Times == 1..MaxClock
Ids == 1..MaxId
IsoDate == "2024-01-01"

\* adjacent runs of bytes joined, empty runs dropped
RECURSIVE Joined(_)
Joined(runs) ==
    IF runs = <<>> THEN <<>>
    ELSE LET h == Head(runs)
             rest == Joined(Tail(runs))
         IN  IF h.kind = "bytes" /\ h.from = h.to THEN rest
             ELSE IF /\ rest # <<>>
                     /\ h.kind = "bytes"
                     /\ Head(rest).kind = "bytes"
                     /\ h.to = Head(rest).from
             THEN <<Bytes(h.from, Head(rest).to)>> \o Tail(rest)
             ELSE <<h>> \o rest

\* the decoder's pass over a base64 string: the text of a run whose length
\* is no multiple of 3 ends in '=' padding, and the decoder stops at the
\* first '='; the characters of a prefix decode to bytes of no file
RECURSIVE DecodedRuns(_)
DecodedRuns(d) ==
    IF d = <<>> THEN <<>>
    ELSE LET h == Head(d)
         IN  IF h.kind = "prefix" THEN <<Junk>> \o DecodedRuns(Tail(d))
             ELSE IF (h.to - h.from) % 3 # 0 THEN <<Bytes(h.from, h.to)>>
             ELSE <<Bytes(h.from, h.to)>> \o DecodedRuns(Tail(d))

\* Buffer.from(data, 'base64'): the bytes of a base64 string
BufferFromBase64(d) == Joined(DecodedRuns(d))

\* new Date(x).toISOString() of a validated date
ToISOString(d) ==
    IF d = "2024-01-01" THEN "2024-01-01T00:00:00.000Z" ELSE d

\* `uploads/${Date.now()}-${filename}`
UploadPath(now, filename) == [kind |-> "path", t |-> now, name |-> filename]

\* supabase.storage.from(BUCKET_NAME).getPublicUrl(path).data.publicUrl:
\* synchronous, computed from the path alone
GetPublicUrl(path) == [kind |-> "publicUrl", t |-> path.t, name |-> path.name]

\* ------------------------------------------------------------------ state

VARIABLES
    rows,      \* Record Store: the rows of table videos, by id
    blobs,     \* Blob Store: the objects of bucket videos, path -> bytes
    nextId,    \* the serial the Record Store assigns to the next insert
    req,       \* the request the server handled last
    res,       \* its response (status, body, validation issues, log, error)
    player,    \* the VideoPlayer mounted on the response of GET /api/videos/:id
    form,      \* the admin page's VideoForm: its values and its file encoder
    db,        \* the run of initializeDatabase at server start
    home       \* the Home page: the videos it loaded and its filters

vars == <<rows, blobs, nextId, req, res, player, form, db, home>>
server == <<rows, blobs, nextId, req, res, player>>

\* ------------------------------------------------------------------ requests

\* a body with no keys
EmptyBody ==
    [title |-> UNDEF, url |-> Undefined, videoData |-> VdUndefined,
     thumbnail |-> UNDEF, platform |-> UNDEF, videoDate |-> UNDEF]

\* a body with a url and an image thumbnail, valid in every field
UrlBody ==
    [title |-> "T", url |-> YoutubeUrl, videoData |-> VdNull,
     thumbnail |-> JpgThumbnail, platform |-> "youtube", videoDate |-> NULLS]

\* the JSON bodies POST /api/videos is driven with: every combination of
\* media source and platform under a valid title, a body with an empty url,
\* bodies with an empty title, a body without the url and videoData keys, a
\* body whose thumbnail is no image and a body whose url no player plays
CreateBodies ==
    [title : {"T"},
     url : {Null, YoutubeUrl},
     videoData : {VdNull} \cup {VdObject(Payload, f) : f \in Filenames},
     thumbnail : {JpgThumbnail},
     platform : Platforms,
     videoDate : {NULLS}]
    \cup {[UrlBody EXCEPT !.url = EmptyUrl],
          [UrlBody EXCEPT !.title = ""],
          [UrlBody EXCEPT !.title = "", !.url = Null],
          [UrlBody EXCEPT !.url = Undefined, !.videoData = VdUndefined],
          [UrlBody EXCEPT !.thumbnail = GifThumbnail],
          [UrlBody EXCEPT !.url = PageUrl, !.platform = "mp4"]}

\* the JSON bodies PATCH /api/videos/:id is driven with: url left alone or
\* set to null, with and without a file; a new url, a new platform, a
\* videoDate alone, an empty title and a null videoDate
UpdateBodies ==
    [title : {UNDEF},
     url : {Undefined, Null},
     videoData : {VdUndefined} \cup {VdObject(Payload, f) : f \in Filenames},
     thumbnail : {UNDEF},
     platform : {UNDEF},
     videoDate : {UNDEF}]
    \cup {[EmptyBody EXCEPT !.url = YoutubeUrl],
          [EmptyBody EXCEPT !.platform = "mp4"],
          [EmptyBody EXCEPT !.videoDate = IsoDate],
          [EmptyBody EXCEPT !.title = ""],
          [EmptyBody EXCEPT !.videoDate = NULLS]}

NoVideos == {}

\* ------------------------------------------------------------------ validators

Issue(path, message) == [path |-> path, message |-> message]

When(cond, issue) == IF cond THEN {issue} ELSE {}

\* the issues of the object schema proper; a missing required key is a type
\* error, which aborts the parse before the refinement runs
TypeIssues(body) ==
    When(body.title = UNDEF, Issue("title", "Required"))
    \cup When(body.url = Undefined, Issue("url", "Required"))
    \cup When(body.videoData.kind = "undefined", Issue("videoData", "Required"))
    \cup When(body.thumbnail = UNDEF, Issue("thumbnail", "Required"))
    \cup When(body.platform = UNDEF, Issue("platform", "Required"))
    \cup When(body.videoDate = UNDEF, Issue("videoDate", "Invalid input"))

\* the .min(1, ...) checks of the string fields
MinIssues(body) ==
    When(body.title = "", Issue("title", "Title is required"))
    \cup When(body.thumbnail = "", Issue("thumbnail", "Thumbnail URL is required"))
    \cup When(body.platform = "", Issue("platform", "Platform is required"))

\* the refinement as it would be if it tested for undefined instead of null
RefineOkUndefined(data) ==
    (data.url # Undefined) \/ (data.videoData.kind # "undefined")

\* the .refine of insertVideoSchema: either URL or videoData must be present
RefineOk(data) == (data.url # Null) \/ (data.videoData.kind # "null")

\* insertVideoSchema.parse(body): the issues of the ZodError, {} when it parses
insertVideoSchema(body) ==
    IF TypeIssues(body) # {}
    THEN TypeIssues(body) \cup MinIssues(body)
    ELSE MinIssues(body)
         \cup (IF RefineOk(body) THEN {}
               ELSE {Issue("", "Either URL or video file must be provided")})

\* updateVideoSchema.parse(body): every key optional, no refinement
updateVideoSchema(body) ==
    MinIssues(body)
    \cup When(body.videoDate = NULLS, Issue("videoDate", "Invalid input"))

\* ReactPlayer.canPlay(url): of the urls of the model the YouTube watch URL
\* and the public URL of a stored .mp4 match a player's pattern
canPlay(url) == url = YoutubeUrl \/ url.kind = "publicUrl"

\* thumbnail.match(/\.(jpg|jpeg|png|webp)(\?.*)?$/i), over the thumbnails of
\* the model
MatchesImagePattern(thumbnail) == thumbnail = JpgThumbnail

\* formSchema.parse(data) of the admin form: insertVideoSchema, and when the
\* object parsed, the superRefine's url and thumbnail checks
formSchema(data) ==
    IF TypeIssues(data) # {}
    THEN insertVideoSchema(data)
    ELSE insertVideoSchema(data)
         \cup When(Truthy(data.url) /\ ~canPlay(data.url),
                   Issue("url", "Must be a valid YouTube, Vimeo, or MP4 URL"))
         \cup When(data.thumbnail # "" /\ ~MatchesImagePattern(data.thumbnail),
                   Issue("thumbnail", "Must be a valid image URL (JPG, PNG, or WebP)"))

\* ------------------------------------------------------------------ storage

\* a row of table videos as supabase returns it (snake_case columns)
Row(id, title, url, video_data, thumbnail, platform, video_date) ==
    [id |-> id, title |-> title, url |-> url, video_data |-> video_data,
     thumbnail |-> thumbnail, platform |-> platform, video_date |-> video_date]

\* the object a storage method returns: the row's columns spread, plus the
\* camelCase keys the method sets (undefined when it sets none)
Video(row, url, videoData, videoDate) ==
    [id |-> row.id, title |-> row.title, url |-> url,
     video_data |-> row.video_data, thumbnail |-> row.thumbnail,
     platform |-> row.platform,
     video_date |-> row.video_date, videoData |-> videoData,
     videoDate |-> videoDate]

\* the row returned untouched
RawVideo(row) == Video(row, row.url, Undefined, UNDEF)

\* baseVideo = { ...video, videoDate: video.video_date }
BaseVideo(row) == Video(row, row.url, Undefined, row.video_date)

\* { ...video, url: publicUrl, videoData: null, videoDate: video.video_date }
UploadedVideo(row) ==
    Video(row, GetPublicUrl(row.video_data), Null, row.video_date)

IsUploaded(row) == row.platform = "upload" /\ Truthy(row.video_data)

\* the per-row processing of getVideos and getVideo
ProcessVideo(row) == IF IsUploaded(row) THEN UploadedVideo(row) ELSE BaseVideo(row)

\* what a storage method hands back to its route
Outcome(kind, videos, logged, thrown) ==
    [kind |-> kind, videos |-> videos, logged |-> logged, thrown |-> thrown]

\* fails is the set of a method's store calls ("select", "upload", "insert",
\* "update", "remove", "delete") that answer with an error.

\* getVideos()
getVideos(fails) ==
    IF "select" \in fails
    THEN Outcome("throw", NoVideos, {"Error retrieving videos"},
                 "Failed to retrieve videos")
    ELSE Outcome("videos", {ProcessVideo(rows[i]) : i \in DOMAIN rows},
                 {"Retrieved videos"}, "")

\* getVideo(id)
getVideo(id, fails) ==
    IF "select" \in fails
    THEN Outcome("throw", NoVideos, {"Error retrieving video"}, "select")
    ELSE IF id \in DOMAIN rows
         THEN Outcome("video", {ProcessVideo(rows[id])}, {}, "")
         ELSE Outcome("undefined", NoVideos, {}, "")
\* what a mutating storage method leaves behind and hands back
Effect(rows1, blobs1, nextId1, out) ==
    [rows |-> rows1, blobs |-> blobs1, nextId |-> nextId1, out |-> out]

\* the upload's error as it would be if createVideo and updateVideo went on
\* after a failed put
UploadErrorIgnored(path, fails) == FALSE

\* supabase.storage.from(BUCKET_NAME).upload(path, buffer, { upsert: false }):
\* the store refuses a path that already holds an object
UploadError(path, fails) == "upload" \in fails \/ path \in DOMAIN blobs

\* the Blob Store after a successful upload of buffer under path
Upload(path, buffer) ==
    [p \in DOMAIN blobs \cup {path} |-> IF p = path THEN buffer ELSE blobs[p]]

\* dbVideo as it would be if the payload itself went into video_data
CreateDbVideoInline(insertVideo, videoPath) ==
    Row(nextId, insertVideo.title, insertVideo.url,
        IF insertVideo.videoData.kind = "object"
        THEN Raw(insertVideo.videoData.data) ELSE Null,
        insertVideo.thumbnail, insertVideo.platform,
        IF insertVideo.videoDate # NULLS
        THEN ToISOString(insertVideo.videoDate) ELSE NULLS)

\* the dbVideo object createVideo inserts
CreateDbVideo(insertVideo, videoPath) ==
    Row(nextId, insertVideo.title, insertVideo.url, videoPath,
        insertVideo.thumbnail, insertVideo.platform,
        IF insertVideo.videoDate # NULLS
        THEN ToISOString(insertVideo.videoDate) ELSE NULLS)

\* the value createVideo and updateVideo return for the row the store gave back
ReturnedVideo(row, videoDate) ==
    IF IsUploaded(row)
    THEN Video(row, GetPublicUrl(row.video_data), Null, row.video_date)
    ELSE Video(row, row.url, Undefined, videoDate)

\* createVideo(insertVideo): now is Date.now()
createVideo(insertVideo, now, fails) ==
    LET hasFile == insertVideo.videoData.kind = "object"
        path == UploadPath(now, insertVideo.videoData.filename)
        buffer == BufferFromBase64(insertVideo.videoData.data)
        uploadError == hasFile /\ UploadError(path, fails)
        blobs1 == IF hasFile THEN Upload(path, buffer) ELSE blobs
        videoPath == IF hasFile THEN path ELSE Null
        dbVideo == CreateDbVideo(insertVideo, videoPath)
        logs == {"Starting video creation..."}
                \cup (IF hasFile THEN {"Uploading video to storage"} ELSE {})
    IN  IF uploadError
        THEN Effect(rows, blobs, nextId,
                    Outcome("throw", NoVideos, logs \cup {"Error creating video"},
                            "Failed to upload video"))
        ELSE IF "insert" \in fails
        THEN Effect(rows, blobs1, nextId,
                    Outcome("throw", NoVideos, logs \cup {"Error creating video"},
                            "insert"))
        ELSE Effect([i \in DOMAIN rows \cup {nextId} |->
                        IF i = nextId THEN dbVideo ELSE rows[i]],
                    blobs1, nextId + 1,
                    Outcome("video", {ReturnedVideo(dbVideo, dbVideo.video_date)},
                            logs, ""))

\* dbVideo as it would be if the uploaded file's path were left out of it
UpdateDbVideoKeepsPath(row, updateVideo, videoPath) ==
    [row EXCEPT
        !.title = IF updateVideo.title # UNDEF THEN updateVideo.title ELSE @,
        !.url = IF updateVideo.url # Undefined THEN updateVideo.url ELSE @,
        !.thumbnail = IF updateVideo.thumbnail # UNDEF THEN updateVideo.thumbnail ELSE @,
        !.platform = IF updateVideo.platform # UNDEF THEN updateVideo.platform ELSE @,
        !.video_date = IF updateVideo.videoDate = UNDEF THEN @
                       ELSE IF updateVideo.videoDate # NULLS
                            THEN ToISOString(updateVideo.videoDate) ELSE NULLS]

\* the dbVideo object updateVideo builds, as the row after the update: a
\* column changes when its key is in the update (video_data when a file was
\* uploaded, video_date when videoDate is in the update)
UpdateDbVideo(row, updateVideo, videoPath) ==
    [row EXCEPT
        !.title = IF updateVideo.title # UNDEF THEN updateVideo.title ELSE @,
        !.url = IF updateVideo.url # Undefined THEN updateVideo.url ELSE @,
        !.video_data = IF videoPath # Null THEN videoPath ELSE @,
        !.thumbnail = IF updateVideo.thumbnail # UNDEF THEN updateVideo.thumbnail ELSE @,
        !.platform = IF updateVideo.platform # UNDEF THEN updateVideo.platform ELSE @,
        !.video_date = IF updateVideo.videoDate = UNDEF THEN @
                       ELSE IF updateVideo.videoDate # NULLS
                            THEN ToISOString(updateVideo.videoDate) ELSE NULLS]

\* Object.keys(dbVideo).length === 0, tested before videoDate is added
NoFieldsToUpdate(updateVideo, videoPath) ==
    /\ updateVideo.title = UNDEF
    /\ updateVideo.url = Undefined
    /\ videoPath = Null
    /\ updateVideo.thumbnail = UNDEF
    /\ updateVideo.platform = UNDEF

\* updateVideo as it would be if the file were uploaded before the record is
\* looked up
updateVideoUploadsFirst(id, upd, now, fails) ==
    LET hasFile == upd.videoData.kind = "object"
        path == UploadPath(now, upd.videoData.filename)
        buffer == BufferFromBase64(upd.videoData.data)
        uploadError == hasFile /\ UploadError(path, fails)
        blobs1 == IF hasFile THEN Upload(path, buffer) ELSE blobs
        videoPath == IF hasFile THEN path ELSE Null
        logs == {"Starting update"}
                \cup (IF hasFile THEN {"Uploading video to storage"} ELSE {})
    IN  IF "select" \in fails
        THEN Effect(rows, blobs, nextId,
                    Outcome("throw", NoVideos,
                            {"Starting update", "Error fetching existing video",
                             "Error updating video"}, "select"))
        ELSE IF id \notin DOMAIN rows
        THEN Effect(rows, IF uploadError THEN blobs ELSE blobs1, nextId,
                    Outcome("undefined", NoVideos,
                            logs \cup {"No video found"}, ""))
        ELSE IF uploadError
        THEN Effect(rows, blobs, nextId,
                    Outcome("throw", NoVideos,
                            logs \cup {"Error uploading video", "Error updating video"},
                            "Failed to upload video"))
        ELSE IF NoFieldsToUpdate(upd, videoPath)
        THEN Effect(rows, blobs1, nextId,
                    Outcome("video", {RawVideo(rows[id])},
                            logs \cup {"No fields to update"}, ""))
        ELSE IF "update" \in fails
        THEN Effect(rows, blobs1, nextId,
                    Outcome("throw", NoVideos,
                            logs \cup {"Error updating video in database",
                                       "Error updating video"}, "update"))
        ELSE LET video == UpdateDbVideo(rows[id], upd, videoPath)
             IN  Effect([rows EXCEPT ![id] = video], blobs1, nextId,
                        Outcome("video", {ReturnedVideo(video, UNDEF)},
                                logs \cup {"Successfully updated video"}, ""))

\* updateVideo(id, updateVideo)
updateVideo(id, upd, now, fails) ==
    LET hasFile == upd.videoData.kind = "object"
        path == UploadPath(now, upd.videoData.filename)
        buffer == BufferFromBase64(upd.videoData.data)
        uploadError == hasFile /\ UploadError(path, fails)
        blobs1 == IF hasFile THEN Upload(path, buffer) ELSE blobs
        videoPath == IF hasFile THEN path ELSE Null
        logs == {"Starting update"}
                \cup (IF hasFile THEN {"Uploading video to storage"} ELSE {})
    IN  IF "select" \in fails
        THEN Effect(rows, blobs, nextId,
                    Outcome("throw", NoVideos,
                            {"Starting update", "Error fetching existing video",
                             "Error updating video"}, "select"))
        ELSE IF id \notin DOMAIN rows
        THEN Effect(rows, blobs, nextId,
                    Outcome("undefined", NoVideos,
                            {"Starting update", "No video found"}, ""))
        ELSE IF uploadError
        THEN Effect(rows, blobs, nextId,
                    Outcome("throw", NoVideos,
                            logs \cup {"Error uploading video", "Error updating video"},
                            "Failed to upload video"))
        ELSE IF NoFieldsToUpdate(upd, videoPath)
        THEN Effect(rows, blobs1, nextId,
                    Outcome("video", {RawVideo(rows[id])},
                            logs \cup {"No fields to update"}, ""))
        ELSE IF "update" \in fails
        THEN Effect(rows, blobs1, nextId,
                    Outcome("throw", NoVideos,
                            logs \cup {"Error updating video in database",
                                       "Error updating video"}, "update"))
        ELSE LET video == UpdateDbVideo(rows[id], upd, videoPath)
             IN  Effect([rows EXCEPT ![id] = video], blobs1, nextId,
                        Outcome("video", {ReturnedVideo(video, UNDEF)},
                                logs \cup {"Successfully updated video"}, ""))

\* the Blob Store after remove([path])
Remove(path) == [p \in DOMAIN blobs \ {path} |-> blobs[p]]

\* deleteVideo's storage removal for an uploaded video: when the Blob Store
\* answers with an error it is logged and the deletion goes on
RemoveFile(row, fails) ==
    IF ~IsUploaded(row)
    THEN [blobs |-> blobs, logged |-> {}]
    ELSE IF "remove" \in fails
    THEN [blobs |-> blobs, logged |-> {"Error deleting video file from storage"}]
    ELSE [blobs |-> Remove(row.video_data),
          logged |-> {"Successfully deleted video file from storage"}]

\* deleteVideo as it would be if the storage removal's error were thrown
deleteVideoRethrows(id, fails) ==
    IF "select" \in fails
    THEN Effect(rows, blobs, nextId,
                Outcome("throw", NoVideos,
                        {"Error fetching video for deletion", "Error deleting video"},
                        "select"))
    ELSE IF id \notin DOMAIN rows
    THEN Effect(rows, blobs, nextId,
                Outcome("false", NoVideos, {"Video not found for deletion"}, ""))
    ELSE LET removed == RemoveFile(rows[id], fails)
         IN  IF IsUploaded(rows[id]) /\ "remove" \in fails
             THEN Effect(rows, blobs, nextId,
                         Outcome("throw", NoVideos,
                                 removed.logged \cup {"Error deleting video"},
                                 "remove"))
             ELSE IF "delete" \in fails
             THEN Effect(rows, removed.blobs, nextId,
                         Outcome("throw", NoVideos,
                                 removed.logged
                                 \cup {"Error deleting video from database",
                                       "Error deleting video"}, "delete"))
             ELSE Effect([i \in DOMAIN rows \ {id} |-> rows[i]], removed.blobs,
                         nextId,
                         Outcome("true", NoVideos,
                                 removed.logged \cup {"Deleted video from database"},
                                 ""))

\* deleteVideo(id)
deleteVideo(id, fails) ==
    IF "select" \in fails
    THEN Effect(rows, blobs, nextId,
                Outcome("throw", NoVideos,
                        {"Error fetching video for deletion", "Error deleting video"},
                        "select"))
    ELSE IF id \notin DOMAIN rows
    THEN Effect(rows, blobs, nextId,
                Outcome("false", NoVideos, {"Video not found for deletion"}, ""))
    ELSE LET removed == RemoveFile(rows[id], fails)
         IN  IF "delete" \in fails
             THEN Effect(rows, removed.blobs, nextId,
                         Outcome("throw", NoVideos,
                                 removed.logged
                                 \cup {"Error deleting video from database",
                                       "Error deleting video"}, "delete"))
             ELSE Effect([i \in DOMAIN rows \ {id} |-> rows[i]], removed.blobs,
                         nextId,
                         Outcome("true", NoVideos,
                                 removed.logged \cup {"Deleted video from database"},
                                 ""))

\* ------------------------------------------------------------------ routes

\* a request as the server meets it: the route, the :id parameter, the JSON
\* body, and what the environment answers while it is handled (the value of
\* Date.now() and the store calls that fail)
Request(op, id, body, now, fails) ==
    [op |-> op, id |-> id, body |-> body, now |-> now, fails |-> fails]

Response(status, videos, issues, logged, thrown) ==
    [status |-> status, videos |-> videos, issues |-> issues,
     logged |-> logged, thrown |-> thrown]

NoRequest == Request("", 0, EmptyBody, 0, {})
NoResponse == Response(0, NoVideos, {}, {}, "")

\* res.status(400) of the ZodError branch
Invalid(issues) == Response(400, NoVideos, issues, {}, "ZodError")

\* the statuses as they would be if a route answered a thrown error the way
\* it answers a missing video
StatusErrorAsNotFound(okStatus, out) ==
    CASE out.kind \in {"throw", "undefined", "false"} -> 404
      [] OTHER -> okStatus

\* the status each route gives the value (or the error) of its storage call
Status(okStatus, out) ==
    CASE out.kind = "throw" -> 500
      [] out.kind \in {"undefined", "false"} -> 404
      [] OTHER -> okStatus

Respond(okStatus, out) ==
    Response(Status(okStatus, out), out.videos, {}, out.logged, out.thrown)

\* ------------------------------------------------------------------ player

\* the state of a VideoPlayer: its video prop (none when no player is
\* mounted) and its useState values
Player(video, videoSource, error, isLoading, isUploadedVideo) ==
    [video |-> video, videoSource |-> videoSource, error |-> error,
     isLoading |-> isLoading, isUploadedVideo |-> isUploadedVideo]

Unmounted == Player(NoVideos, Null, "", FALSE, FALSE)

\* the useState initial values, before the effect has run
Mounted(video) == Player({video}, Null, "", TRUE, FALSE)

\* URL.createObjectURL(blob) of the decoded inline payload
BlobUrl(videoData) == [kind |-> "blobUrl", t |-> 0, name |-> videoData.name]

\* setupVideo as it would be if the missing source were reported with the
\* catch-all message of a failed load
setupVideoFailedToLoad(video, fetchOk) ==
    IF video.platform = "youtube"
    THEN IF ~Truthy(video.url)
         THEN Player({video}, Null, "Failed to load video", FALSE, FALSE)
         ELSE Player({video}, video.url, "", FALSE, FALSE)
    ELSE IF Truthy(video.videoData)
    THEN IF fetchOk
         THEN Player({video}, BlobUrl(video.videoData), "", FALSE, TRUE)
         ELSE Player({video}, Null, "Failed to process video data", FALSE, FALSE)
    ELSE IF Truthy(video.url)
    THEN Player({video}, video.url, "", FALSE, FALSE)
    ELSE Player({video}, Null, "Failed to load video", FALSE, FALSE)

\* setupVideo() of the effect: fetchOk is whether the inline payload decodes
setupVideo(video, fetchOk) ==
    IF video.platform = "youtube"
    THEN IF ~Truthy(video.url)
         THEN Player({video}, Null, "YouTube URL is missing", FALSE, FALSE)
         ELSE Player({video}, video.url, "", FALSE, FALSE)
    ELSE IF Truthy(video.videoData)
    THEN IF fetchOk
         THEN Player({video}, BlobUrl(video.videoData), "", FALSE, TRUE)
         ELSE Player({video}, Null, "Failed to process video data", FALSE, FALSE)
    ELSE IF Truthy(video.url)
    THEN Player({video}, video.url, "", FALSE, FALSE)
    ELSE Player({video}, Null, "No video source available", FALSE, FALSE)

\* renderVideoContent(): what the player shows
renderVideoContent(p) ==
    IF p.error # "" THEN "placeholder: error message"
    ELSE IF p.isLoading \/ ~Truthy(p.videoSource) THEN "placeholder: Loading video..."
    ELSE IF p.isUploadedVideo THEN "video element"
    ELSE "ReactPlayer"

\* ------------------------------------------------------------------ admin form

\* CHUNK_SIZE of handleFileChange: 2 MB
CHUNK_SIZE == 2 * 1024 * 1024

\* the files the file input is given: empty, one byte, exactly one chunk up
\* to MaxFileChunks chunks, and MaxFileChunks chunks plus one byte
Files ==
    {[name |-> "empty.mp4", size |-> 0], [name |-> "byte.mp4", size |-> 1],
     [name |-> "tail.mp4", size |-> MaxFileChunks * CHUNK_SIZE + 1]}
    \cup {[name |-> ToString(k) \o "chunks.mp4", size |-> k * CHUNK_SIZE] :
             k \in 1..MaxFileChunks}
NoFile == [name |-> "", size |-> 0]

\* defaultValues of the form that creates a video: no videoDate key
CreateDefaults ==
    [title |-> "", url |-> Null, videoData |-> VdNull, thumbnail |-> "",
     platform |-> "youtube", videoDate |-> UNDEF]

\* defaultValues of the form that edits a video the admin page listed
EditDefaults(video) ==
    [title |-> video.title, url |-> video.url,
     videoData |-> IF video.videoData.kind = "null" THEN VdNull ELSE VdUndefined,
     thumbnail |-> video.thumbnail, platform |-> video.platform,
     videoDate |-> video.videoDate]

\* the videos of the admin page's list the edit form is opened on: one with
\* an external url and an uploaded one
EditVideos ==
    {ProcessVideo(Row(1, "T", YoutubeUrl, Null, JpgThumbnail, "youtube", NULLS)),
     ProcessVideo(Row(1, "T", Null, UploadPath(1, "a.mp4"), JpgThumbnail,
                      "upload", NULLS))}

\* a progress value processedChunks / chunks * 100 as the fraction
\* num / den, so that a division by 0 stays visible
Progress(num, den) == [num |-> num, den |-> den]

\* useForm and the useState hooks of a VideoForm just mounted, with the
\* locals of its file encoder
NewForm(defaults) ==
    [values |-> defaults, isUploading |-> FALSE, uploadProgress |-> Progress(0, 1),
     file |-> NoFile, chunks |-> 0, processedChunks |-> 0, base64Data |-> <<>>,
     reading |-> <<>>, submitted |-> <<>>, errors |-> {}]

Min(a, b) == IF a < b THEN a ELSE b

\* Math.ceil(file.size / CHUNK_SIZE)
Ceil(size) == (size + CHUNK_SIZE - 1) \div CHUNK_SIZE

\* readNextChunk(start): the slice reader.readAsDataURL is started on
readNextChunk(file, start) ==
    <<[from |-> start, to |-> Min(start + CHUNK_SIZE, file.size)]>>

\* e.target.result of a finished read: the data URL of the slice
Result(chunk) == <<Prefix, Base64(chunk.from, chunk.to)>>

\* s.split('base64,') and s.split(','): the pieces of s between its
\* prefixes (a prefix holds the one ',' and the one 'base64,' of a data URL)
RECURSIVE Split(_)
Split(s) ==
    IF s = <<>> THEN << <<>> >>
    ELSE LET rest == Split(Tail(s))
         IN  IF Head(s).kind = "prefix" THEN << <<>> >> \o rest
             ELSE << <<Head(s)>> \o Head(rest) >> \o Tail(rest)

\* s.split(...)[1]; undefined (no text) when s holds no prefix
SecondPiece(s) == IF Len(Split(s)) >= 2 THEN Split(s)[2] ELSE <<>>

\* ------------------------------------------------------------------ database initialization

MAX_RETRIES == 3
INITIAL_RETRY_DELAY == 1000

\* the run of initializeDatabase: where it stands (pc), its locals
\* retryCount and lastError, the errors its catch block took, the delays it
\* passed to setTimeout, whether it created the videos bucket, whether the
\* permission test warned, and the error it threw
Db(pc, retryCount, lastError, failed, delays, created, warned, thrown) ==
    [pc |-> pc, retryCount |-> retryCount, lastError |-> lastError,
     failed |-> failed, delays |-> delays, created |-> created,
     warned |-> warned, thrown |-> thrown]

\* before initializeDatabase is called
NewDb == Db("idle", 0, NULLS, <<>>, <<>>, FALSE, FALSE, NULLS)

\* INITIAL_RETRY_DELAY * Math.pow(2, retryCount - 1)
RetryDelay(retryCount) == INITIAL_RETRY_DELAY * 2 ^ (retryCount - 1)

\* the test of the while loop
Retrying(retryCount) == retryCount < MAX_RETRIES

\* the test as it would be if every failed attempt were followed by a wait
WaitsAfterEveryFailure(retryCount) == TRUE

\* the test of the catch block before it waits
WaitsBeforeRetry(retryCount) == retryCount < MAX_RETRIES

\* control is at the while test: the next attempt starts, or the loop is
\* left and lastError is thrown
WhileTest(d) ==
    IF Retrying(d.retryCount)
    THEN [d EXCEPT !.pc = "select"]
    ELSE [d EXCEPT !.pc = "thrown", !.thrown = d.lastError]

\* the catch block took error
Catch(d, error) ==
    LET retryCount == d.retryCount + 1
        caught == [d EXCEPT !.lastError = error,
                            !.retryCount = retryCount,
                            !.failed = Append(@, error)]
    IN  IF WaitsBeforeRetry(retryCount)
        THEN [caught EXCEPT !.pc = "wait",
                            !.delays = Append(@, RetryDelay(retryCount))]
        ELSE WhileTest(caught)

\* ------------------------------------------------------------------ home page

videoDurationCategories ==
    [short |-> [max |-> 300],
     medium |-> [min |-> 300, max |-> 900],
     long |-> [min |-> 900]]

\* getDurationCategory as it would be if the upper limits were exclusive
getDurationCategoryExclusive(duration) ==
    IF duration < videoDurationCategories.short.max THEN "Short"
    ELSE IF duration < videoDurationCategories.medium.max THEN "Medium"
    ELSE "Long"

\* getDurationCategory(duration): the category badge of a video
getDurationCategory(duration) ==
    IF duration <= videoDurationCategories.short.max THEN "Short"
    ELSE IF duration <= videoDurationCategories.medium.max THEN "Medium"
    ELSE "Long"

\* the duration filters VideoFilters offers
durations == {"short", "medium", "long"}

\* the label of a duration filter's button: its key, capitalized by CSS
Capitalize(duration) ==
    CASE duration = "short" -> "Short"
      [] duration = "medium" -> "Medium"
      [] duration = "long" -> "Long"

\* the videos the Home page is given: what its filters read of a video
HomeVideos ==
    [duration : 0..MaxDuration,
     platform : {"youtube", "upload"},
     tags : SUBSET {"ai"}]

\* useState's initial filters
NoFilters == [platform |-> NULLS, duration |-> NULLS, tag |-> NULLS]

\* the Home page before its query answered: videos is undefined
NewHome == [loaded |-> FALSE, videos |-> {}, filters |-> NoFilters]

\* the callback of videos.filter: whether video passes filters
Passes(video, filters) ==
    IF filters.platform # NULLS /\ video.platform # filters.platform THEN FALSE
    ELSE IF /\ filters.duration # NULLS
            /\ \/ /\ filters.duration = "short"
                  /\ video.duration > videoDurationCategories.short.max
               \/ /\ filters.duration = "medium"
                  /\ \/ video.duration <= videoDurationCategories.medium.min
                     \/ video.duration > videoDurationCategories.medium.max
               \/ /\ filters.duration = "long"
                  /\ video.duration <= videoDurationCategories.long.min
    THEN FALSE
    ELSE IF filters.tag # NULLS /\ filters.tag \notin video.tags THEN FALSE
    ELSE TRUE

\* filteredVideos of the Home page
filteredVideos(h) == {video \in h.videos : Passes(video, h.filters)}

\* ------------------------------------------------------------------ actions

Init ==
    /\ rows = <<>>
    /\ blobs = <<>>
    /\ nextId = 1
    /\ req = NoRequest
    /\ res = NoResponse
    /\ player = Unmounted
    /\ form = NewForm(CreateDefaults)
    /\ db = NewDb
    /\ home = NewHome

Apply(effect) ==
    /\ rows' = effect.rows
    /\ blobs' = effect.blobs
    /\ nextId' = effect.nextId

Idle == req = NoRequest /\ player = Unmounted

\* GET /api/videos
GetVideos ==
    /\ Idle
    /\ \E fails \in SUBSET {"select"} :
        /\ req' = Request("GET /api/videos", 0, EmptyBody, 0, fails)
        /\ res' = Respond(200, getVideos(fails))
    /\ UNCHANGED <<rows, blobs, nextId, player, form, db, home>>

\* GET /api/videos/:id as it would be if the read wrote the URL it resolved
\* back into the record
GetVideoStoresUrl(id) ==
    /\ Idle
    /\ \E fails \in SUBSET {"select"} :
        /\ req' = Request("GET /api/videos/:id", id, EmptyBody, 0, fails)
        /\ res' = Respond(200, getVideo(id, fails))
        /\ rows' = [i \in DOMAIN rows |->
                     IF i = id /\ fails = {}
                     THEN [rows[i] EXCEPT !.url = ProcessVideo(rows[i]).url]
                     ELSE rows[i]]
    /\ UNCHANGED <<blobs, nextId, player, form, db, home>>

\* GET /api/videos/:id
GetVideo(id) ==
    /\ Idle
    /\ \E fails \in SUBSET {"select"} :
        /\ req' = Request("GET /api/videos/:id", id, EmptyBody, 0, fails)
        /\ res' = Respond(200, getVideo(id, fails))
    /\ UNCHANGED <<rows, blobs, nextId, player, form, db, home>>

\* the values Date.now() can take for a body: it is read only for a file
Now(body) == IF body.videoData.kind = "object" THEN Times ELSE {0}

\* a method stops at the first failing store call, so at most one fails;
\* only deleteVideo goes on after its storage removal failed
AtMostOne(calls) == {{}} \cup {{c} : c \in calls}

\* POST /api/videos as it would be if the video were created before the body
\* is parsed
PostVideoCreatesFirst(body) ==
    /\ Idle
    /\ nextId <= MaxId
    /\ \E now \in Now(body), fails \in AtMostOne({"upload", "insert"}) :
         LET effect == createVideo(body, now, fails)
         IN  /\ req' = Request("POST /api/videos", 0, body, now, fails)
             /\ Apply(effect)
             /\ res' = IF insertVideoSchema(body) # {}
                       THEN Invalid(insertVideoSchema(body))
                       ELSE Respond(201, effect.out)
    /\ UNCHANGED <<player, form, db, home>>

\* POST /api/videos
PostVideo(body) ==
    /\ Idle
    /\ IF insertVideoSchema(body) # {}
       THEN /\ req' = Request("POST /api/videos", 0, body, 0, {})
            /\ res' = Invalid(insertVideoSchema(body))
            /\ UNCHANGED <<rows, blobs, nextId>>
       ELSE /\ nextId <= MaxId
            /\ \E now \in Now(body), fails \in AtMostOne({"upload", "insert"}) :
                 LET effect == createVideo(body, now, fails)
                 IN  /\ req' = Request("POST /api/videos", 0, body, now, fails)
                     /\ Apply(effect)
                     /\ res' = Respond(201, effect.out)
    /\ UNCHANGED <<player, form, db, home>>

\* PATCH /api/videos/:id
PatchVideo(id, body) ==
    /\ Idle
    /\ IF updateVideoSchema(body) # {}
       THEN /\ req' = Request("PATCH /api/videos/:id", id, body, 0, {})
            /\ res' = Invalid(updateVideoSchema(body))
            /\ UNCHANGED <<rows, blobs, nextId>>
       ELSE \E now \in Now(body),
               fails \in AtMostOne({"select", "upload", "update"}) :
                 LET effect == updateVideo(id, body, now, fails)
                 IN  /\ req' = Request("PATCH /api/videos/:id", id, body, now, fails)
                     /\ Apply(effect)
                     /\ res' = Respond(200, effect.out)
    /\ UNCHANGED <<player, form, db, home>>

\* DELETE /api/videos/:id
DeleteVideo(id) ==
    /\ Idle
    /\ \E fails \in AtMostOne({"select", "remove", "delete"})
                      \cup {{"remove", "delete"}} :
        LET effect == deleteVideo(id, fails)
        IN  /\ req' = Request("DELETE /api/videos/:id", id, EmptyBody, 0, fails)
            /\ Apply(effect)
            /\ res' = Respond(204, effect.out)
    /\ UNCHANGED <<player, form, db, home>>

\* The client takes the response.  The server handles the next request only
\* then: its handlers share nothing but the two stores.  The video page
\* mounts a VideoPlayer on the video GET /api/videos/:id answered with.
Deliver ==
    /\ req # NoRequest
    /\ player' = IF req.op = "GET /api/videos/:id" /\ res.status = 200
                 THEN Mounted(CHOOSE v \in res.videos : TRUE)
                 ELSE Unmounted
    /\ req' = NoRequest
    /\ res' = NoResponse
    /\ UNCHANGED <<rows, blobs, nextId, form, db, home>>

\* the player's effect runs setupVideo on its video
PlayerSetup ==
    /\ player.video # NoVideos
    /\ player.isLoading
    /\ \E fetchOk \in BOOLEAN :
         player' = setupVideo(CHOOSE v \in player.video : TRUE, fetchOk)
    /\ UNCHANGED <<rows, blobs, nextId, req, res, form, db, home>>

\* ReactPlayer's onError: the source could not be played
PlayerOnError ==
    /\ renderVideoContent(player) = "ReactPlayer"
    /\ player' = [player EXCEPT !.error = "Failed to play video. Please try again later."]
    /\ UNCHANGED <<rows, blobs, nextId, req, res, form, db, home>>

\* the visitor leaves the video page
PlayerUnmount ==
    /\ player.video # NoVideos
    /\ ~player.isLoading
    /\ player' = Unmounted
    /\ UNCHANGED <<rows, blobs, nextId, req, res, form, db, home>>

Next ==
    \/ GetVideos
    \/ \E id \in Ids : GetVideo(id)
    \/ \E body \in CreateBodies : PostVideo(body)
    \/ \E id \in Ids, body \in UpdateBodies : PatchVideo(id, body)
    \/ \E id \in Ids : DeleteVideo(id)
    \/ Deliver
    \/ PlayerSetup
    \/ PlayerOnError
    \/ PlayerUnmount

Spec == Init /\ [][Next]_vars

\* ------------------------------------------------------------------ admin form actions

\* the admin page mounts a VideoForm: the create form, or the edit dialog
\* on a listed video
FormMount(defaults) ==
    /\ form' = NewForm(defaults)
    /\ UNCHANGED <<server, db, home>>

\* field.onChange of the title and thumbnail inputs
FieldOnChange(field, value) ==
    /\ form' = [form EXCEPT !.values[field] = value]
    /\ UNCHANGED <<server, db, home>>

\* handleUrlChange as it would be if the encoded file were kept next to the
\* typed URL
handleUrlChangeKeepsFile(url) ==
    /\ form' = [form EXCEPT
                  !.values.url = IF url = EmptyUrl THEN Null ELSE url,
                  !.values.platform =
                      IF ~canPlay(url) THEN @
                      ELSE IF url = YoutubeUrl THEN "youtube" ELSE "mp4"]
    /\ UNCHANGED <<server, db, home>>

\* handleUrlChange(url)
handleUrlChange(url) ==
    /\ form' = [form EXCEPT
                  !.values.url = IF url = EmptyUrl THEN Null ELSE url,
                  !.values.videoData = VdNull,
                  !.values.platform =
                      IF ~canPlay(url) THEN @
                      ELSE IF url = YoutubeUrl THEN "youtube" ELSE "mp4"]
    /\ UNCHANGED <<server, db, home>>

\* handleFileChange(event): the file input is disabled while isUploading
handleFileChange(file) ==
    /\ ~form.isUploading
    /\ form' = [form EXCEPT
                  !.isUploading = TRUE,
                  !.uploadProgress = Progress(0, 1),
                  !.file = file,
                  !.chunks = Ceil(file.size),
                  !.processedChunks = 0,
                  !.base64Data = <<>>,
                  !.reading = readNextChunk(file, 0)]
    /\ UNCHANGED <<server, db, home>>

\* base64Data as it would be if every chunk's result were appended whole
AppendedWhole(base64Data, processedChunks, result) == base64Data \o result

\* base64Data after reader.onload took result: the first chunk keeps its
\* data-URL prefix, the later ones append their base64 text only
Appended(base64Data, processedChunks, result) ==
    IF processedChunks = 0 THEN result ELSE base64Data \o SecondPiece(result)

\* the test as it would be if the encoder finished with its first chunk
FirstChunkProcessed(processedChunks, chunks) == processedChunks >= 1

\* reader.onload's else branch is taken: all chunks processed
AllChunksProcessed(processedChunks, chunks) == ~(processedChunks < chunks)

\* reader.onload: the read of the current chunk finished
ReaderOnLoad ==
    /\ form.reading # <<>>
    /\ LET base64Data == Appended(form.base64Data, form.processedChunks,
                                  Result(form.reading[1]))
           processedChunks == form.processedChunks + 1
           progress == Progress(processedChunks * 100, form.chunks)
       IN  IF ~AllChunksProcessed(processedChunks, form.chunks)
           THEN form' = [form EXCEPT
                           !.base64Data = base64Data,
                           !.processedChunks = processedChunks,
                           !.uploadProgress = progress,
                           !.reading = readNextChunk(form.file,
                                                     processedChunks * CHUNK_SIZE)]
           ELSE form' = [form EXCEPT
                           !.base64Data = base64Data,
                           !.processedChunks = processedChunks,
                           !.uploadProgress = progress,
                           !.reading = <<>>,
                           !.values.videoData =
                               VdObject(SecondPiece(base64Data), form.file.name),
                           !.values.url = Null,
                           !.values.platform = "upload",
                           !.isUploading = FALSE]
    /\ UNCHANGED <<server, db, home>>

\* the read of the current chunk fails: the reader has no onerror handler
ReaderOnError ==
    /\ form.reading # <<>>
    /\ form' = [form EXCEPT !.reading = <<>>]
    /\ UNCHANGED <<server, db, home>>

\* form.handleSubmit(onSubmit): the submit button is disabled while
\* isUploading; onSubmit gets the values when formSchema parses them
FormSubmit ==
    /\ ~form.isUploading
    /\ form' = [form EXCEPT
                  !.errors = formSchema(form.values),
                  !.submitted = IF formSchema(form.values) = {}
                                THEN <<form.values>> ELSE @]
    /\ UNCHANGED <<server, db, home>>

FormNext ==
    \/ \E defaults \in {CreateDefaults} \cup {EditDefaults(v) : v \in EditVideos} :
         FormMount(defaults)
    \/ FieldOnChange("title", "T")
    \/ FieldOnChange("thumbnail", GifThumbnail)
    \/ \E url \in {EmptyUrl, YoutubeUrl, PageUrl} : handleUrlChange(url)
    \/ \E file \in Files : handleFileChange(file)
    \/ ReaderOnLoad
    \/ ReaderOnError
    \/ FormSubmit

FormSpec == Init /\ [][FormNext]_vars

\* a read the encoder started ends: the FileReader fires load or error
FormFairSpec == FormSpec /\ WF_vars(ReaderOnLoad \/ ReaderOnError)


\* ------------------------------------------------------------------ database initialization actions

\* initializeDatabase() is called
DbStart ==
    /\ db.pc = "idle"
    /\ db' = WhileTest(db)
    /\ UNCHANGED <<server, form, home>>

\* the connection test answers
DbSelect ==
    /\ db.pc = "select"
    /\ \E error \in BOOLEAN :
         db' = IF error THEN Catch(db, "select")
               ELSE [db EXCEPT !.pc = "listBuckets"]
    /\ UNCHANGED <<server, form, home>>

\* initializeStorage: listBuckets answers with an error, with a list that
\* holds the videos bucket, or with one that does not
DbListBuckets ==
    /\ db.pc = "listBuckets"
    /\ \E answer \in {"error", "videos", "none"} :
         /\ db.created => answer # "none"
         /\ db' = CASE answer = "error" -> Catch(db, "listBuckets")
                    [] answer = "videos" -> [db EXCEPT !.pc = "returned"]
                    [] answer = "none" -> [db EXCEPT !.pc = "createBucket"]
    /\ UNCHANGED <<server, form, home>>

\* initializeStorage: createBucket answers
DbCreateBucket ==
    /\ db.pc = "createBucket"
    /\ \E error \in BOOLEAN :
         db' = IF error THEN Catch(db, "createBucket")
               ELSE [db EXCEPT !.pc = "createSignedUrls", !.created = TRUE]
    /\ UNCHANGED <<server, form, home>>

\* initializeStorage: the permission test answers; its error is a warning
DbCreateSignedUrls ==
    /\ db.pc = "createSignedUrls"
    /\ \E error \in BOOLEAN :
         db' = [db EXCEPT !.pc = "returned", !.warned = error]
    /\ UNCHANGED <<server, form, home>>

\* the timer of the retry delay fires
DbTimeout ==
    /\ db.pc = "wait"
    /\ db' = WhileTest(db)
    /\ UNCHANGED <<server, form, home>>

DbNext ==
    \/ DbStart
    \/ DbSelect
    \/ DbListBuckets
    \/ DbCreateBucket
    \/ DbCreateSignedUrls
    \/ DbTimeout

DbSpec == Init /\ [][DbNext]_vars

\* ------------------------------------------------------------------ home page actions

\* the query of /api/videos answers with videos
HomeQueryLoaded(videos) ==
    /\ ~home.loaded
    /\ home' = [home EXCEPT !.loaded = TRUE, !.videos = videos]
    /\ UNCHANGED <<server, form, db>>

\* handleFilterChange(key, value): VideoFilters is rendered once videos are
\* there
handleFilterChange(key, value) ==
    /\ home.loaded
    /\ home' = [home EXCEPT !.filters[key] = value]
    /\ UNCHANGED <<server, form, db>>

HomeNext ==
    \/ \E video \in HomeVideos : HomeQueryLoaded({video})
    \/ \E platform \in {NULLS, "youtube"} : handleFilterChange("platform", platform)
    \/ \E duration \in {NULLS} \cup durations : handleFilterChange("duration", duration)
    \/ \E tag \in {NULLS, "ai"} : handleFilterChange("tag", tag)

HomeSpec == Init /\ [][HomeNext]_vars

\* ------------------------------------------------------------------ storage calls

\* the bodies createVideo is called with: a file of either content, under
\* platform 'upload' or 'youtube'
UploadBodies ==
    {[UrlBody EXCEPT !.url = Null, !.videoData = VdObject(data, filename),
                     !.platform = platform] :
        data \in Payloads, filename \in Filenames,
        platform \in {"upload", "youtube"}}

\* the updates updateVideo is called with: a file of either content
UploadUpdates ==
    {[EmptyBody EXCEPT !.videoData = VdObject(data, filename)] :
        data \in Payloads, filename \in Filenames}

\* storage.createVideo(insertVideo)
StorageCreateVideo(insertVideo) ==
    /\ nextId <= MaxRecords
    /\ \E now \in Times, fails \in AtMostOne({"upload", "insert"}) :
         Apply(createVideo(insertVideo, now, fails))
    /\ UNCHANGED <<req, res, player, form, db, home>>

\* storage.updateVideo(id, updateVideo)
StorageUpdateVideo(id, upd) ==
    /\ \E now \in Times, fails \in AtMostOne({"select", "upload", "update"}) :
         Apply(updateVideo(id, upd, now, fails))
    /\ UNCHANGED <<req, res, player, form, db, home>>

\* storage.deleteVideo(id)
StorageDeleteVideo(id) ==
    /\ \E fails \in AtMostOne({"select", "remove", "delete"})
                      \cup {{"remove", "delete"}} :
         Apply(deleteVideo(id, fails))
    /\ UNCHANGED <<req, res, player, form, db, home>>

StorageNext ==
    \/ \E insertVideo \in UploadBodies : StorageCreateVideo(insertVideo)
    \/ \E id \in 1..MaxRecords, upd \in UploadUpdates : StorageUpdateVideo(id, upd)
    \/ \E id \in 1..MaxRecords : StorageDeleteVideo(id)

StorageSpec == Init /\ [][StorageNext]_vars

\* ------------------------------------------------------------------ claims

\* the server takes a request in this step
Handles(op) == req = NoRequest /\ req'.op = op

\* C1: deleteVideo on an existing uploaded record whose Blob Store removal
\* fails: the removal's error is logged and never the error raised; when the
\* Record Store's delete succeeds the row is gone and the answer is true
\* (204), and only the Record Store's own error makes the deletion fail.
C1_DeleteSurvivesBlobFailure ==
    [][(/\ Handles("DELETE /api/videos/:id")
        /\ req'.id \in DOMAIN rows
        /\ IsUploaded(rows[req'.id])
        /\ "select" \notin req'.fails
        /\ "remove" \in req'.fails)
       => /\ "Error deleting video file from storage" \in res'.logged
          /\ res'.thrown \in {"", "delete"}
          /\ "delete" \notin req'.fails
               => /\ res'.status = 204
                  /\ res'.thrown = ""
                  /\ req'.id \notin DOMAIN rows'
                  /\ blobs' = blobs
          /\ "delete" \in req'.fails
               => /\ res'.status = 500
                  /\ rows' = rows]_vars

\* a deletion answered 204 although the storage removal failed
C1_Witness ==
    /\ req.op = "DELETE /api/videos/:id"
    /\ "remove" \in req.fails
    /\ "Error deleting video file from storage" \in res.logged
    /\ res.status = 204
    /\ req.id \notin DOMAIN rows
    /\ blobs # <<>>

C3_UploadIffStoredBlob ==
    \A id \in DOMAIN rows :
        (rows[id].platform = "upload") <=> (rows[id].video_data # Null)

\* a submission's url / videoData names a media source
HasUrl(body) == Truthy(body.url)
HasFile(body) == body.videoData.kind = "object"

\* C4: no accepted create submission that carries both a url and videoData
\* leaves a record that holds both an external url and a stored blob path.
C4_NeverBothSourcesPersisted ==
    (/\ req.op = "POST /api/videos"
     /\ res.status = 201
     /\ HasUrl(req.body)
     /\ HasFile(req.body))
    => \A v \in res.videos :
         ~(Truthy(rows[v.id].url) /\ Truthy(rows[v.id].video_data))

\* C5: a create submission with url null and videoData null, every other
\* field valid, is answered 400 with exactly one issue, the refinement's
\* "Either URL or video file must be provided"; createVideo is not entered
\* and neither store changes.
C5_MissingSourceRejected ==
    [][(/\ Handles("POST /api/videos")
        /\ req'.body.url = Null
        /\ req'.body.videoData = VdNull
        /\ req'.body.title \notin {"", UNDEF}
        /\ req'.body.platform \notin {"", UNDEF}
        /\ req'.body.videoDate # UNDEF)
       => /\ res'.status = 400
          /\ res'.issues = {Issue("", "Either URL or video file must be provided")}
          /\ res'.logged = {}
          /\ res'.videos = NoVideos
          /\ UNCHANGED <<rows, blobs, nextId>>]_vars

\* such a submission answered with the single issue
C5_Witness ==
    /\ req.op = "POST /api/videos"
    /\ req.body.url = Null
    /\ req.body.videoData = VdNull
    /\ req.body.title = "T"
    /\ res.status = 400
    /\ Cardinality(res.issues) = 1

\* C7: for every accepted create submission with exactly one media source
\* (a url or a file), createVideo followed by getVideo and the player's
\* setupVideo yields a non-empty source, whatever the platform field.
C7_OneSourceRoundTripsToUrl ==
    (/\ req.op = "POST /api/videos"
     /\ res.status = 201
     /\ HasUrl(req.body) # HasFile(req.body))
    => \A c \in res.videos :
         \A v \in getVideo(c.id, {}).videos :
           \A fetchOk \in BOOLEAN :
             /\ setupVideo(v, fetchOk).error = ""
             /\ Truthy(setupVideo(v, fetchOk).videoSource)

\* the player has run its effect on the video it was mounted with
Resolved == player.video # NoVideos /\ ~player.isLoading

\* C8: for every persisted record with platform other than 'upload' and a
\* non-null url, getVideo and getVideos return the url as stored, and the
\* player mounted on it uses that url as its source.
C8_ExternalUrlVerbatim ==
    /\ (req.op \in {"GET /api/videos/:id", "GET /api/videos"} /\ res.status = 200)
       => \A v \in res.videos :
            (rows[v.id].platform # "upload" /\ rows[v.id].url # Null)
            => v.url = rows[v.id].url
    /\ Resolved
       => \A v \in player.video :
            (v.platform # "upload" /\ v.url # Null)
            => player.videoSource = v.url

\* C9: every video a storage method returns for a record with platform
\* 'upload' and a stored path carries the public URL of the path as url
\* and null as videoData.
C9_UploadedReadsGivePublicUrl ==
    \A v \in res.videos :
        (v.platform = "upload" /\ Truthy(v.video_data))
        => /\ v.url = GetPublicUrl(v.video_data)
           /\ v.videoData = Null

\* the record the player was given has no usable source
NoUsableSource(v) == ~Truthy(v.url) /\ ~Truthy(v.videoData)

\* the messages the player sets when processing or playing a source fails
TransportErrors ==
    {"Failed to process video data", "Failed to load video",
     "Failed to play video. Please try again later."}

ResolverState(rs, id) ==
    IF id \notin DOMAIN rs THEN "NONE"
    ELSE IF IsUploaded(rs[id]) THEN "UPLOADED_PATH"
    ELSE IF Truthy(rs[id].url) THEN "EXTERNAL"
    ELSE "MISSING"

C16_InvalidNeverReachesStores ==
    [][(\/ Handles("POST /api/videos") /\ insertVideoSchema(req'.body) # {}
        \/ Handles("PATCH /api/videos/:id") /\ updateVideoSchema(req'.body) # {})
       => /\ res'.status = 400
          /\ res'.issues # {}
          /\ res'.issues \in {insertVideoSchema(req'.body), updateVideoSchema(req'.body)}
          /\ res'.logged = {}
          /\ UNCHANGED <<rows, blobs, nextId>>]_vars

\* an update with an empty title rejected while a record exists
C16_Witness ==
    /\ req.op = "PATCH /api/videos/:id"
    /\ req.body.title = ""
    /\ res.status = 400
    /\ Issue("title", "Title is required") \in res.issues
    /\ req.id \in DOMAIN rows

\* C17: a create submission whose thumbnail does not match the image
\* pattern is answered 400 with an issue on thumbnail, and no record holds
\* such a thumbnail.
C17_BadThumbnailRejected ==
    /\ (/\ req.op = "POST /api/videos"
        /\ req.body.thumbnail \notin {UNDEF, ""}
        /\ ~MatchesImagePattern(req.body.thumbnail))
       => /\ res.status = 400
          /\ \E i \in res.issues : i.path = "thumbnail"
    /\ \A id \in DOMAIN rows : MatchesImagePattern(rows[id].thumbnail)

\* C18: a create submission whose url is a non-empty string that matches no
\* player pattern is answered 400, and no record holds such a url.
C18_UnplayableUrlRejected ==
    /\ (/\ req.op = "POST /api/videos"
        /\ Truthy(req.body.url)
        /\ ~canPlay(req.body.url))
       => res.status = 400
    /\ \A id \in DOMAIN rows : Truthy(rows[id].url) => canPlay(rows[id].url)

\* C19: every persisted record has a media source, a non-null url or a
\* stored blob path, and an update that would leave neither is rejected.
C19_EveryRecordHasSource ==
    /\ \A id \in DOMAIN rows : rows[id].url # Null \/ rows[id].video_data # Null
    /\ (/\ req.op = "PATCH /api/videos/:id"
        /\ req.id \in DOMAIN rows
        /\ req.body.url = Null
        /\ req.body.videoData.kind # "object"
        /\ rows[req.id].video_data = Null)
       => res.status = 400

\* C20: a PATCH with a file answered 200 wrote one object, the decoded
\* payload, under a path the Blob Store did not hold, made it the record's
\* video_data, and left every object the Blob Store held in place.
C20_UpdateWritesOneNewBlob ==
    [][(/\ Handles("PATCH /api/videos/:id")
        /\ req'.body.videoData.kind = "object"
        /\ res'.status = 200)
       => LET path == UploadPath(req'.now, req'.body.videoData.filename)
          IN  /\ path \notin DOMAIN blobs
              /\ DOMAIN blobs' = DOMAIN blobs \cup {path}
              /\ blobs'[path] = BufferFromBase64(req'.body.videoData.data)
              /\ \A p \in DOMAIN blobs : blobs'[p] = blobs[p]
              /\ rows'[req'.id].video_data = path
              /\ \A v \in res'.videos : v.video_data = path]_vars

\* an update replaced a stored path, whose object is still in the Blob Store
C20_Witness ==
    /\ req.op = "PATCH /api/videos/:id"
    /\ req.body.videoData.kind = "object"
    /\ res.status = 200
    /\ \E p \in DOMAIN blobs :
         /\ p # rows[req.id].video_data
         /\ \A id \in DOMAIN rows : rows[id].video_data # p
    /\ rows[req.id].video_data \in DOMAIN blobs

\* C12: every progress value the encoder sets is a fraction in 0..100 %,
\* the values of one encoding never decrease, and the value set when the
\* encoding completes is exactly 100 %.
C12_ProgressMonotoneToOne ==
    [][LET p == form.uploadProgress
           q == form'.uploadProgress
       IN  /\ q.den > 0 /\ 0 <= q.num /\ q.num <= 100 * q.den
           /\ (form.isUploading /\ form'.processedChunks > form.processedChunks)
              => p.num * q.den <= q.num * p.den
           /\ (form.isUploading /\ ~form'.isUploading /\ form'.file = form.file)
              => q.num = 100 * q.den]_vars

\* the reads an encoding of file makes, and the base64 text of each chunk
ChunkCount(file) == IF Ceil(file.size) = 0 THEN 1 ELSE Ceil(file.size)
ChunkText(file) ==
    [k \in 1..ChunkCount(file) |->
        Base64((k - 1) * CHUNK_SIZE, Min(k * CHUNK_SIZE, file.size))]

\* the bytes of file
FileBytes(file) == IF file.size = 0 THEN <<>> ELSE <<Bytes(0, file.size)>>

\* C13: the payload the encoder put into videoData decodes, as the server
\* decodes it, to exactly the bytes of the file it was encoded from.
C13_DecodesToOriginal ==
    form.values.videoData.kind = "object"
    => \A f \in Files :
         f.name = form.values.videoData.filename
         => BufferFromBase64(form.values.videoData.data) = FileBytes(f)

\* C14: base64Data is one prefix followed by the text of the chunks
\* 0..processedChunks-1 in file order, each once; a read in progress is the
\* read of chunk processedChunks, started after the chunks before it were
\* appended; an encoding that completed has appended every chunk.
C14_ChunksInFileOrder ==
    form.file # NoFile
    => /\ form.processedChunks <= ChunkCount(form.file)
       /\ form.base64Data =
            IF form.processedChunks = 0 THEN <<>>
            ELSE <<Prefix>> \o SubSeq(ChunkText(form.file), 1, form.processedChunks)
       /\ form.reading # <<>>
          => /\ Len(form.reading) = 1
             /\ form.reading[1].from = form.processedChunks * CHUNK_SIZE
             /\ form.processedChunks < ChunkCount(form.file)
       /\ ~form.isUploading
          => /\ form.processedChunks = ChunkCount(form.file)
             /\ form.processedChunks >= form.chunks

\* the largest file encoded to the end
C14_Witness ==
    /\ ~form.isUploading
    /\ form.file.size = MaxFileChunks * CHUNK_SIZE + 1
    /\ form.processedChunks = MaxFileChunks + 1
    /\ form.values.videoData.filename = form.file.name
    /\ Len(form.values.videoData.data) = MaxFileChunks + 1

\* videoData holds the text of every chunk of the file it names
Complete(videoData) ==
    \E f \in Files : f.name = videoData.filename /\ videoData.data = ChunkText(f)

\* C15: videoData of the form is never a payload of fewer than all chunks of
\* its file, a failed read leaves it as it was, and onSubmit is called only
\* while no encoding is in progress, with a videoData that is complete.
C15_NoPartialPayload ==
    [][/\ form'.values.videoData.kind = "object"
          => Complete(form'.values.videoData)
       /\ (form.reading # <<>> /\ form'.reading = <<>> /\ form'.isUploading)
          => form'.values = form.values
       /\ (form'.submitted # form.submitted /\ form'.submitted # <<>>)
          => /\ ~form.isUploading
             /\ form'.submitted[1].videoData.kind = "object"
                => Complete(form'.submitted[1].videoData)]_vars

\* a read failed after the first chunk of a larger file: the encoding is
\* stuck in progress, videoData is still the complete payload submitted before
C15_Witness ==
    /\ form.isUploading
    /\ form.reading = <<>>
    /\ form.processedChunks >= 1
    /\ form.processedChunks < form.chunks
    /\ form.submitted # <<>>
    /\ form.submitted[1].videoData.kind = "object"
    /\ form.values.videoData = form.submitted[1].videoData

\* the row an update of row old with body b at time now is meant to leave:
\* each column whose field is in b holds the supplied value, every other
\* column is the one of old
SuppliedOver(old, b, now) ==
    Row(old.id,
        IF b.title # UNDEF THEN b.title ELSE old.title,
        IF b.url # Undefined THEN b.url ELSE old.url,
        IF b.videoData.kind = "object"
        THEN UploadPath(now, b.videoData.filename) ELSE old.video_data,
        IF b.thumbnail # UNDEF THEN b.thumbnail ELSE old.thumbnail,
        IF b.platform # UNDEF THEN b.platform ELSE old.platform,
        IF b.videoDate = UNDEF THEN old.video_date
        ELSE IF b.videoDate # NULLS THEN ToISOString(b.videoDate) ELSE NULLS)

\* C21: a PATCH answered 200 leaves the record with exactly the supplied
\* fields changed to the supplied values, whatever non-empty subset of the
\* updatable fields the body holds, videoDate alone included.
C21_UpdateChangesSuppliedFields ==
    [][(Handles("PATCH /api/videos/:id") /\ res'.status = 200)
       => /\ req'.id \in DOMAIN rows'
          /\ rows'[req'.id] = SuppliedOver(rows[req'.id], req'.body, req'.now)
          /\ \A i \in DOMAIN rows' \ {req'.id} : rows'[i] = rows[i]]_vars

\* C22: getVideo, updateVideo and deleteVideo answer 404 exactly when the
\* lookup succeeded and found no record of the id, and 500 exactly when an
\* error is thrown, which takes a store call that failed (or an upload the
\* Blob Store refuses because the path is taken); a failed lookup is always
\* a 500.
C22_ErrorIsNotNotFound ==
    [][(/\ \/ Handles("GET /api/videos/:id")
           \/ Handles("PATCH /api/videos/:id")
           \/ Handles("DELETE /api/videos/:id")
        /\ res'.status # 400)
       => /\ res'.status = 404
             <=> (req'.id \notin DOMAIN rows /\ "select" \notin req'.fails)
          /\ "select" \in req'.fails => res'.status = 500
          /\ res'.status = 500 <=> res'.thrown # ""
          /\ res'.status = 500
             => \/ req'.fails \ {"remove"} # {}
                \/ /\ req'.body.videoData.kind = "object"
                   /\ UploadPath(req'.now, req'.body.videoData.filename)
                        \in DOMAIN blobs]_vars

\* an update of a record no longer there answered 404, after a lookup that
\* failed was answered 500
C22_Witness ==
    /\ req.op = "PATCH /api/videos/:id"
    /\ req.id \notin DOMAIN rows
    /\ req.fails = {"update"}
    /\ res.status = 404

\* the path a request with a file is uploaded under
RequestPath(r) == UploadPath(r.now, r.body.videoData.filename)

\* C24: a step that handles a POST or a PATCH puts at most one blob and
\* writes at most one record; when its put fails 'Failed to upload video'
\* is thrown (500), no record is inserted or updated and both stores stay as
\* they were.
C24_FailedPutWritesNothing ==
    [][(Handles("POST /api/videos") \/ Handles("PATCH /api/videos/:id"))
       => /\ Cardinality(DOMAIN blobs' \ DOMAIN blobs) <= 1
          /\ Cardinality({i \in DOMAIN rows' :
                            i \notin DOMAIN rows \/ rows'[i] # rows[i]}) <= 1
          /\ (/\ res'.status # 400
              /\ req'.body.videoData.kind = "object"
              /\ Handles("PATCH /api/videos/:id")
                 => (req'.id \in DOMAIN rows /\ "select" \notin req'.fails)
              /\ "upload" \in req'.fails \/ RequestPath(req') \in DOMAIN blobs)
             => /\ res'.status = 500
                /\ res'.thrown = "Failed to upload video"
                /\ "Successfully updated video" \notin res'.logged
                /\ UNCHANGED <<rows, blobs, nextId>>]_vars

\* an update with a file on an existing record whose put failed
C24_Witness ==
    /\ req.op = "PATCH /api/videos/:id"
    /\ req.id \in DOMAIN rows
    /\ req.fails = {"upload"}
    /\ res.status = 500
    /\ res.thrown = "Failed to upload video"
    /\ RequestPath(req) \notin DOMAIN blobs

\* C26: every record with platform 'upload' and a path in video_data refers
\* to a blob the Blob Store holds, whatever store calls failed on the way.
C26_UploadedRecordHasBlob ==
    \A id \in DOMAIN rows :
        IsUploaded(rows[id]) => rows[id].video_data \in DOMAIN blobs

\* C27: a PATCH or a DELETE of an id the Record Store has no record of is
\* answered 404 with no video, uploads nothing (also when the body holds a
\* file), removes nothing and leaves both stores as they were.
C27_MissingIdChangesNothing ==
    [][(/\ Handles("PATCH /api/videos/:id") \/ Handles("DELETE /api/videos/:id")
        /\ res'.status # 400
        /\ req'.id \notin DOMAIN rows
        /\ "select" \notin req'.fails)
       => /\ res'.status = 404
          /\ res'.videos = NoVideos
          /\ res'.thrown = ""
          /\ "Uploading video to storage" \notin res'.logged
          /\ UNCHANGED <<rows, blobs, nextId>>]_vars

\* an update with a file for a missing id, answered 404 with no blob written
C27_Witness ==
    /\ req.op = "PATCH /api/videos/:id"
    /\ req.body.videoData.kind = "object"
    /\ req.id \notin DOMAIN rows
    /\ res.status = 404
    /\ RequestPath(req) \notin DOMAIN blobs

\* C25: once the encoder has started, isUploading becomes false again,
\* whether every chunk read succeeds or one of them fails.
C25_EncoderLeavesInProgress == form.isUploading ~> ~form.isUploading

\* C28: url and videoData of the form are never both non-null; the
\* encoding that completes sets videoData, clears url and sets platform
\* 'upload', and a change of url leaves no file in videoData, also while an
\* encoding is in progress.
C28_UrlOrFileNeverBoth ==
    [][/\ ~(form'.values.url # Null /\ form'.values.videoData.kind = "object")
       /\ (form.isUploading /\ ~form'.isUploading /\ form'.file = form.file)
          => /\ form'.values.videoData.kind = "object"
             /\ form'.values.url = Null
             /\ form'.values.platform = "upload"
       /\ (form'.values.url # form.values.url
           /\ form'.isUploading = form.isUploading)
          => form'.values.videoData.kind # "object"]_vars

\* a URL was typed while the second chunk of a file is being read
C28_Witness ==
    /\ form.isUploading
    /\ form.reading # <<>>
    /\ form.processedChunks >= 1
    /\ form.values.url = YoutubeUrl
    /\ form.values.videoData = VdNull

\* the records of rs that hold a path in video_data
WithPath(rs) == {i \in DOMAIN rs : rs[i].video_data.kind = "path"}

\* C23: no call of the storage object overwrites a blob the Blob Store
\* holds, and no two records hold the same blob path in video_data, also
\* when two files of the same name are uploaded at the same timestamp.
C23_FreshPathPerUpload ==
    [][/\ \A p \in DOMAIN blobs \cap DOMAIN blobs' : blobs'[p] = blobs[p]
       /\ \A i, j \in WithPath(rows') :
            i # j => rows'[i].video_data # rows'[j].video_data]_vars

\* the steps a run of initializeDatabase has left at most
StepsLeft(d) ==
    IF d.pc \in {"returned", "thrown"} THEN 0
    ELSE (MAX_RETRIES - d.retryCount) * 6
         + CASE d.pc = "idle" -> 6
             [] d.pc = "wait" -> 5
             [] d.pc = "select" -> 4
             [] d.pc = "listBuckets" -> 3
             [] d.pc = "createBucket" -> 2
             [] d.pc = "createSignedUrls" -> 1

====
